---- MODULE Spec2Model ----
(***************************************************************************)
(* Cluster membership and quorum computation of raftlog (src/cluster.rs).  *)
(* A ClusterConfig is an immutable value {new, old, state}; the owner of   *)
(* the configuration replaces it by the value a transition returns.        *)
(***************************************************************************)
EXTENDS Integers, Sequences, FiniteSets, TLC

\* ---------------------------------------------------------------- bounds
MaxNode == 3
MaxVal == 2

Nodes == 1..MaxNode
Vals == 0..MaxVal
ClusterMembers == SUBSET Nodes
ClusterState == {"Stable", "CatchUp", "Joint"}
Accessors == [Nodes -> Vals]

\* the outcome of a query that hit unreachable!("FIX") (a panic, no value)
Unreachable == -1
\* no query has been made since the last transition
NoResult == <<>>

VARIABLES cfg, f, op, result, ctor, bootEmpty, lastStable, target
vars == <<cfg, f, op, result, ctor, bootEmpty, lastStable, target>>

\* ------------------------------------------------------------- accessors
primary_members(c) ==
    CASE c.state = "Stable" -> c.new
      [] c.state = "CatchUp" -> c.old
      [] c.state = "Joint" -> c.old

\* BTreeSet::iter(): the elements in ascending order
RECURSIVE iter(_)
iter(ms) ==
    IF ms = {} THEN <<>>
    ELSE LET n == CHOOSE m \in ms : \A k \in ms : m <= k
         IN <<n>> \o iter(ms \ {n})

\* BTreeSet::union(): the merge of two ascending iterators, an element of both
\* yielded once
RECURSIVE union(_, _)
union(s, t) ==
    IF s = <<>> THEN t
    ELSE IF t = <<>> THEN s
    ELSE IF Head(s) < Head(t) THEN <<Head(s)>> \o union(Tail(s), t)
    ELSE IF Head(t) < Head(s) THEN <<Head(t)>> \o union(s, Tail(t))
    ELSE <<Head(s)>> \o union(Tail(s), Tail(t))

\* the items members() yields, in order
members_iter(c) == union(iter(c.new), iter(c.old))

\* the nodes members() yields
members(c) == {members_iter(c)[i] : i \in 1..Len(members_iter(c))}

\* mutant: only the voters of the phase are known
is_known_node_voters(c, node) == node \in primary_members(c)

is_known_node(c, node) == node \in c.new \/ node \in c.old

\* ---------------------------------------------------------- constructors
new(ms) == [new |-> ms, old |-> {}, state |-> "Stable"]

with_state(new_members, old_members, state) ==
    [new |-> new_members, old |-> old_members, state |-> state]

\* ----------------------------------------------------------- transitions
\* mutant: old is copied from self.old instead of primary_members()
start_config_change_keep_old(c, t) ==
    [new |-> t, old |-> c.old, state |-> "CatchUp"]

start_config_change(c, t) ==
    [new |-> t, old |-> primary_members(c), state |-> "CatchUp"]

\* mutant: old is cleared one step early, on CatchUp -> Joint
to_next_state_clear_early(c) ==
    CASE c.state = "Stable" -> c
      [] c.state = "CatchUp" -> [c EXCEPT !.old = {}, !.state = "Joint"]
      [] c.state = "Joint" -> [c EXCEPT !.old = {}, !.state = "Stable"]

\* mutant: old is not cleared on Joint -> Stable
to_next_state_keep_old(c) ==
    CASE c.state = "Stable" -> c
      [] c.state = "CatchUp" -> [c EXCEPT !.state = "Joint"]
      [] c.state = "Joint" -> [c EXCEPT !.state = "Stable"]

\* mutant: CatchUp goes straight to Stable
to_next_state_skip_joint(c) ==
    CASE c.state = "Stable" -> c
      [] c.state = "CatchUp" -> [c EXCEPT !.old = {}, !.state = "Stable"]
      [] c.state = "Joint" -> [c EXCEPT !.old = {}, !.state = "Stable"]

to_next_state(c) ==
    CASE c.state = "Stable" -> c
      [] c.state = "CatchUp" -> [c EXCEPT !.state = "Joint"]
      [] c.state = "Joint" -> [c EXCEPT !.old = {}, !.state = "Stable"]

\* ------------------------------------------------------------ aggregation
\* members.iter().map(|n| f(n)).collect(): BTreeSet iterates in ascending order
RECURSIVE collect(_, _)
collect(ms, g) ==
    IF ms = {} THEN <<>>
    ELSE LET n == CHOOSE m \in ms : \A k \in ms : m <= k
         IN <<g[n]>> \o collect(ms \ {n}, g)

\* insert v into an ascending sequence
RECURSIVE insert(_, _)
insert(v, s) ==
    IF s = <<>> THEN <<v>>
    ELSE IF v <= Head(s) THEN <<v>> \o s
    ELSE <<Head(s)>> \o insert(v, Tail(s))

\* values.sort()
RECURSIVE sort(_)
sort(s) == IF s = <<>> THEN <<>> ELSE insert(Head(s), sort(Tail(s)))

\* values.reverse()
reverse(s) == [i \in 1..Len(s) |-> s[Len(s) + 1 - i]]

sorted_values(ms, g) == reverse(sort(collect(ms, g)))

\* mutant: the reverse() is forgotten, the index is taken in ascending order
median_ascending(ms, g) ==
    LET values == sort(collect(ms, g))
    IN IF values = <<>> THEN Unreachable
       ELSE values[(Cardinality(ms) \div 2) + 1]

\* mutant: the values are collected into a set (equal values counted once)
median_dedup(ms, g) ==
    LET vs == {g[n] : n \in ms}
    IN IF vs = {} THEN Unreachable
       ELSE CHOOSE v \in vs :
                Cardinality({w \in vs : w > v}) = Cardinality(vs) \div 2

\* mutant: an empty member set yields T::default() instead of a panic
median_default(ms, g) ==
    LET values == sorted_values(ms, g)
    IN IF values = <<>> THEN 0
       ELSE values[(Cardinality(ms) \div 2) + 1]

median(ms, g) ==
    LET values == sorted_values(ms, g)
    IN IF values = <<>> THEN Unreachable
       ELSE values[(Cardinality(ms) \div 2) + 1]

\* cmp::min of two evaluated arguments; a panic in either argument propagates
cmp_min(a, b) ==
    IF a = Unreachable \/ b = Unreachable THEN Unreachable
    ELSE IF a <= b THEN a ELSE b

\* mutant: Joint consults the new members only
consensus_value_new_only(c, g) ==
    CASE c.state = "Stable" -> median(c.new, g)
      [] c.state = "CatchUp" -> median(c.old, g)
      [] c.state = "Joint" -> median(c.new, g)

\* mutant: Joint takes the larger of the two majorities
consensus_value_max(c, g) ==
    CASE c.state = "Stable" -> median(c.new, g)
      [] c.state = "CatchUp" -> median(c.old, g)
      [] c.state = "Joint" ->
            LET a == median(c.new, g)
                b == median(c.old, g)
            IN IF a = Unreachable \/ b = Unreachable THEN Unreachable
               ELSE IF a >= b THEN a ELSE b

\* mutant: Joint takes one majority over the union (the FIX comment's question)
consensus_value_union(c, g) ==
    CASE c.state = "Stable" -> median(c.new, g)
      [] c.state = "CatchUp" -> median(c.old, g)
      [] c.state = "Joint" -> median(c.new \cup c.old, g)

\* mutant: CatchUp already counts the new members
consensus_value_catchup_new(c, g) ==
    CASE c.state = "Stable" -> median(c.new, g)
      [] c.state = "CatchUp" -> median(c.new, g)
      [] c.state = "Joint" -> cmp_min(median(c.new, g), median(c.old, g))

consensus_value(c, g) ==
    CASE c.state = "Stable" -> median(c.new, g)
      [] c.state = "CatchUp" -> median(c.old, g)
      [] c.state = "Joint" -> cmp_min(median(c.new, g), median(c.old, g))

\* mutant: the double majority is asked for in Joint only (is_joint for is_stable)
full_consensus_value_joint_only(c, g) ==
    IF c.state = "Joint" THEN cmp_min(median(c.new, g), median(c.old, g))
    ELSE median(primary_members(c), g)

\* mutant: the larger of the two majorities
full_consensus_value_max(c, g) ==
    IF c.state = "Stable" THEN median(c.new, g)
    ELSE LET a == median(c.new, g)
             b == median(c.old, g)
         IN IF a = Unreachable \/ b = Unreachable THEN Unreachable
            ELSE IF a >= b THEN a ELSE b

full_consensus_value(c, g) ==
    IF c.state = "Stable" THEN median(c.new, g)
    ELSE cmp_min(median(c.new, g), median(c.old, g))

\* ------------------------------------------------------------------ ghost
\* membership of the most recent Stable configuration (<<>>: none seen yet)
Track(c, last) == IF c.state = "Stable" THEN <<c.new>> ELSE last

\* ---------------------------------------------------------------- actions
\* ClusterConfig::new(ms)
InitNew ==
    \E ms \in ClusterMembers :
        /\ cfg = new(ms)
        /\ ctor = "new"
        /\ bootEmpty = (ms = {})

\* ClusterConfig::with_state(n, o, s)
InitWithState ==
    \E n \in ClusterMembers, o \in ClusterMembers, s \in ClusterState :
        /\ cfg = with_state(n, o, s)
        /\ ctor = "with_state"
        /\ bootEmpty = (n = {})

\* the per-member facts the caller passes to the queries
InitRest ==
    /\ f \in Accessors
    /\ op = "init"
    /\ result = NoResult
    /\ lastStable = Track(cfg, <<>>)
    /\ target = <<>>

Init == (InitNew \/ InitWithState) /\ InitRest

\* a panic ends the program
Alive ==
    IF op \in {"members", "is_known_node"} THEN TRUE
    ELSE result # <<Unreachable>>

\* target' records the argument of the call
StartConfigChange ==
    \E t \in ClusterMembers :
        /\ Alive
        /\ cfg' = start_config_change(cfg, t)
        /\ target' = <<t>>
        /\ op' = "start_config_change"
        /\ result' = NoResult
        /\ lastStable' = Track(cfg', lastStable)
        /\ UNCHANGED <<f, ctor, bootEmpty>>

ToNextState ==
    /\ Alive
    /\ cfg' = to_next_state(cfg)
    /\ op' = "to_next_state"
    /\ result' = NoResult
    /\ lastStable' = Track(cfg', lastStable)
    /\ UNCHANGED <<f, ctor, bootEmpty, target>>

ConsensusValue ==
    /\ Alive
    /\ result' = <<consensus_value(cfg, f)>>
    /\ op' = "consensus_value"
    /\ UNCHANGED <<cfg, f, ctor, bootEmpty, lastStable, target>>

FullConsensusValue ==
    /\ Alive
    /\ result' = <<full_consensus_value(cfg, f)>>
    /\ op' = "full_consensus_value"
    /\ UNCHANGED <<cfg, f, ctor, bootEmpty, lastStable, target>>

\* members(): the result is the sequence of items yielded
Members ==
    /\ Alive
    /\ result' = <<members_iter(cfg)>>
    /\ op' = "members"
    /\ UNCHANGED <<cfg, f, ctor, bootEmpty, lastStable, target>>

\* is_known_node(node): the result is the node asked about and the answer
IsKnownNode ==
    \E node \in Nodes :
        /\ Alive
        /\ result' = <<node, is_known_node(cfg, node)>>
        /\ op' = "is_known_node"
        /\ UNCHANGED <<cfg, f, ctor, bootEmpty, lastStable, target>>

Next ==
    \/ StartConfigChange
    \/ ToNextState
    \/ ConsensusValue
    \/ FullConsensusValue
    \/ Members
    \/ IsKnownNode

\* the whole program: a configuration built by a constructor, then any
\* sequence of transitions and queries
Spec == Init /\ [][Next]_vars

\* the queries alone, applied to every configuration value with_state can
\* build and every accessor
InitQuery == InitWithState /\ InitRest

NextQuery ==
    \/ ConsensusValue
    \/ FullConsensusValue

SpecQuery == InitQuery /\ [][NextQuery]_vars

\* the owner's run from bootstrap: ClusterConfig::new(M), M non-empty, then
\* transitions and the two aggregate queries on a fixed accessor
InitDrive == InitNew /\ ~bootEmpty /\ InitRest

NextDrive ==
    \/ StartConfigChange
    \/ ToNextState
    \/ ConsensusValue
    \/ FullConsensusValue

SpecDrive == InitDrive /\ [][NextDrive]_vars

\* the configuration alone: any constructor, the transitions and the
\* membership queries; no aggregate is computed, the accessor is not read
InitConfig ==
    /\ InitNew \/ InitWithState
    /\ f = [n \in Nodes |-> 0]
    /\ op = "init"
    /\ result = NoResult
    /\ lastStable = Track(cfg, <<>>)
    /\ target = <<>>

NextConfig ==
    \/ StartConfigChange
    \/ ToNextState
    \/ Members
    \/ IsKnownNode

SpecConfig == InitConfig /\ [][NextConfig]_vars

TypeOK ==
    /\ cfg \in [new : ClusterMembers, old : ClusterMembers, state : ClusterState]
    /\ f \in Accessors
    /\ op \in {"init", "start_config_change", "to_next_state"} => result = NoResult
    /\ op \in {"consensus_value", "full_consensus_value"} =>
            result \in {<<v>> : v \in Vals \cup {Unreachable}}
    /\ op = "members" => result \in {<<iter(ms)>> : ms \in ClusterMembers}
    /\ op = "is_known_node" => result \in {<<n, b>> : n \in Nodes, b \in BOOLEAN}
    /\ target \in {<<>>} \cup {<<t>> : t \in ClusterMembers}
    /\ ctor \in {"new", "with_state"}
    /\ bootEmpty \in BOOLEAN

\* ================================================================ claims
InChange == cfg.state \in {"CatchUp", "Joint"}

\* the run began with ClusterConfig::new(M), M non-empty
FromNew == ctor = "new" /\ ~bootEmpty

\* a start_config_change step between configurations with voters (the cases
\* of C1 and C3 that do not rest on an empty target)
ChangeStep ==
    FromNew /\ op' = "start_config_change" /\ cfg.new # {} /\ cfg'.new # {}

\* C1: start_config_change called on a CatchUp or Joint configuration is
\* rejected: the configuration in progress stays as it is, it is not replaced
\* by a fresh CatchUp configuration whose new_members is the target.
C1_RejectedWhileChanging ==
    [][(InChange /\ ChangeStep) => cfg' = cfg]_vars

\* C3: the phase changes only along Stable -> CatchUp (start_config_change),
\* CatchUp -> Joint, Joint -> Stable and Stable -> Stable (to_next_state).
C3_PhaseEdges ==
    [][/\ ChangeStep =>
            <<cfg.state, cfg'.state>> = <<"Stable", "CatchUp">>
       /\ (FromNew /\ op' = "to_next_state") =>
            <<cfg.state, cfg'.state>> \in
                {<<"CatchUp", "Joint">>, <<"Joint", "Stable">>, <<"Stable", "Stable">>}
      ]_vars

\* C4: every configuration reachable from ClusterConfig::new(M), M non-empty,
\* has a non-empty new_members.
C4_NewMembersNonEmpty == FromNew => cfg.new # {}

\* C5: in every configuration reachable from ClusterConfig::new(M), M non-empty,
\* that is in CatchUp or Joint, old_members is non-empty and is the membership
\* of the most recent Stable configuration.
C5_OldMembersPreviousStable ==
    (FromNew /\ InChange) => (cfg.old # {} /\ lastStable = <<cfg.old>>)

\* C6: every Stable configuration obtained from new or with_state and any
\* sequence of transitions has an empty old_members.
C6_StableOldEmpty == cfg.state = "Stable" => cfg.old = {}

\* ------------------------------------------------- majorities, declaratively
\* the nodes whose value is at least x
Holders(g, x) == {n \in Nodes : g[n] >= x}

\* h contains more than half of the members of ms
StrictMajority(h, ms) == 2 * Cardinality(h \cap ms) > Cardinality(ms)

\* at least floor(N/2)+1 members of ms hold a value >= x
Guaranteed(ms, g, x) ==
    Cardinality(Holders(g, x) \cap ms) >= (Cardinality(ms) \div 2) + 1

\* the majority-guaranteed value of a non-empty ms: the largest guaranteed x
MajorityGuaranteed(ms, g) ==
    CHOOSE x \in Vals :
        /\ Guaranteed(ms, g, x)
        /\ \A y \in Vals : Guaranteed(ms, g, y) => y <= x

Min(a, b) == IF a <= b THEN a ELSE b

\* s is in descending order and holds each member's value once
DescendingValues(s, ms, g) ==
    /\ Len(s) = Cardinality(ms)
    /\ \A i \in 1..(Len(s) - 1) : s[i] >= s[i + 1]
    /\ \A v \in Vals :
        Cardinality({i \in 1..Len(s) : s[i] = v}) =
            Cardinality({n \in ms : g[n] = v})

\* both sets, independently, have a strict majority holding a value >= x
DoubleMajority(c, g, x) ==
    /\ StrictMajority(Holders(g, x), c.old)
    /\ StrictMajority(Holders(g, x), c.new)

\* consensus_value(f) has just returned v on the current configuration
Returned(v) == op = "consensus_value" /\ result = <<v>>

\* consensus_value(f) has just been called on the current configuration
Queried == op = "consensus_value"

\* C2: in Joint, if consensus_value(f) >= x then the nodes holding a value >= x
\* contain a strict majority of old_members and one of new_members, and so
\* meet every strict majority of old_members and every one of new_members.
C2_JointDoubleMajority ==
    (Queried /\ cfg.state = "Joint" /\ ~Returned(Unreachable)) =>
        \A x \in Vals :
            result[1] >= x =>
                /\ DoubleMajority(cfg, f, x)
                /\ \A q \in SUBSET members(cfg) :
                    (\/ q \subseteq cfg.old /\ StrictMajority(q, cfg.old)
                     \/ q \subseteq cfg.new /\ StrictMajority(q, cfg.new))
                        => q \cap Holders(f, x) # {}

C2_Witness ==
    /\ Returned(MaxVal)
    /\ cfg.state = "Joint"
    /\ cfg.old # cfg.new
    /\ Cardinality(cfg.old) > 1
    /\ Cardinality(cfg.new) > 1
    /\ Holders(f, MaxVal) # members(cfg)

\* C7: for a non-empty member set of size N, median returns the largest x that
\* at least floor(N/2)+1 members hold a value >= x of, and that is the element
\* at zero-based index floor(N/2) of the values in descending order.
\* (Stable: consensus_value is median over new_members, any subset of Nodes.)
C7_MedianIsMajorityGuaranteed ==
    (Queried /\ cfg.state = "Stable" /\ cfg.new # {}) =>
        /\ Returned(MajorityGuaranteed(cfg.new, f))
        /\ DescendingValues(sorted_values(cfg.new, f), cfg.new, f)
        /\ Returned(sorted_values(cfg.new, f)[(Cardinality(cfg.new) \div 2) + 1])

C7_Witness ==
    /\ Queried
    /\ cfg.state = "Stable"
    /\ cfg.new # {}
    /\ Returned(MajorityGuaranteed(cfg.new, f))
    /\ Cardinality(cfg.new) % 2 = 0
    /\ \E n \in cfg.new : f[n] > result[1]
    /\ \E n \in cfg.new : f[n] = result[1]

\* C8: in Joint, consensus_value(f) is the minimum of the majority-guaranteed
\* value over new_members and the one over old_members.
C8_JointIsMinOfMajorities ==
    (Queried /\ cfg.state = "Joint" /\ cfg.new # {} /\ cfg.old # {}) =>
        Returned(Min(MajorityGuaranteed(cfg.new, f), MajorityGuaranteed(cfg.old, f)))

C8_Witness ==
    /\ Queried
    /\ cfg.state = "Joint"
    /\ cfg.new # {}
    /\ cfg.old # {}
    /\ Returned(MajorityGuaranteed(cfg.old, f))
    /\ MajorityGuaranteed(cfg.new, f) > MajorityGuaranteed(cfg.old, f)

\* the rule the FIX comment asks about: one majority over the union
union_value(c, g) == median(c.new \cup c.old, g)

\* C9: the majority over old_members \cup new_members does not give the
\* guarantee of the implemented rule: wherever the union's value is >= x while
\* the nodes holding a value >= x miss a strict majority of old_members or of
\* new_members, consensus_value(f) is below x, so the two rules differ there.
C9_UnionRuleDiffers ==
    (Queried /\ cfg.state = "Joint" /\ cfg.new # {} /\ cfg.old # {}) =>
        \A x \in Vals :
            (union_value(cfg, f) >= x /\ ~DoubleMajority(cfg, f, x)) =>
                result[1] < x

C9_Witness ==
    /\ Queried
    /\ cfg.state = "Joint"
    /\ cfg.new # {}
    /\ cfg.old # {}
    /\ \E x \in Vals :
        /\ union_value(cfg, f) >= x
        /\ ~StrictMajority(Holders(f, x), cfg.old)
        /\ result[1] < x

\* C10: in CatchUp, consensus_value depends on the values of old_members only:
\* accessors that agree on old_members give the same result, which is the
\* majority-guaranteed value over old_members.
C10_CatchUpOldOnly ==
    (Queried /\ cfg.state = "CatchUp") =>
        /\ \A h \in [Nodes \ cfg.old -> Vals] :
            LET g == [n \in Nodes |-> IF n \in cfg.old THEN f[n] ELSE h[n]]
            IN Returned(consensus_value(cfg, g))
        /\ cfg.old # {} => Returned(MajorityGuaranteed(cfg.old, f))

C10_Witness ==
    /\ Queried
    /\ cfg.state = "CatchUp"
    /\ cfg.old # {}
    /\ cfg.new \ cfg.old # {}
    /\ Returned(MajorityGuaranteed(cfg.old, f))
    /\ median(cfg.new, f) > result[1]
    /\ \A n \in cfg.new \ cfg.old : f[n] = MaxVal

\* full_consensus_value(f) has just been called on the current configuration
FullQueried == op = "full_consensus_value"

\* full_consensus_value(f) has just returned v on the current configuration
FullReturned(v) == op = "full_consensus_value" /\ result = <<v>>

BothNonEmpty == cfg.new # {} /\ cfg.old # {}

\* C11: full_consensus_value(f) equals consensus_value(f) in Stable, and in
\* CatchUp and in Joint it is the minimum of the majority-guaranteed value over
\* new_members and the one over old_members.
C11_FullIsDoubleMajority ==
    FullQueried =>
        /\ cfg.state = "Stable" => FullReturned(consensus_value(cfg, f))
        /\ (cfg.state = "Stable" /\ cfg.new # {}) =>
                FullReturned(MajorityGuaranteed(cfg.new, f))
        /\ (InChange /\ BothNonEmpty) =>
                FullReturned(Min(MajorityGuaranteed(cfg.new, f),
                                 MajorityGuaranteed(cfg.old, f)))

C11_Witness ==
    /\ FullQueried
    /\ cfg.state = "CatchUp"
    /\ BothNonEmpty
    /\ MajorityGuaranteed(cfg.new, f) < MajorityGuaranteed(cfg.old, f)
    /\ FullReturned(MajorityGuaranteed(cfg.new, f))

\* C12 as stated: in CatchUp, whenever the majority-guaranteed value over
\* new_members differs from the one over old_members, consensus_value(f)
\* differs from full_consensus_value(f).
C12_DivergeWheneverDifferent ==
    (FullQueried /\ cfg.state = "CatchUp" /\ BothNonEmpty) =>
        (MajorityGuaranteed(cfg.new, f) # MajorityGuaranteed(cfg.old, f)
            => ~FullReturned(consensus_value(cfg, f)))

\* C12 amended: in CatchUp, whenever the majority-guaranteed value over
\* new_members is lower than the one over old_members, consensus_value(f)
\* differs from full_consensus_value(f).
C12_DivergeWhenNewLower ==
    (FullQueried /\ cfg.state = "CatchUp" /\ BothNonEmpty) =>
        (MajorityGuaranteed(cfg.new, f) < MajorityGuaranteed(cfg.old, f)
            => ~FullReturned(consensus_value(cfg, f)))

C12_Witness ==
    /\ FullQueried
    /\ cfg.state = "CatchUp"
    /\ BothNonEmpty
    /\ cfg.old \ cfg.new # {}
    /\ cfg.new \ cfg.old # {}
    /\ result[1] < consensus_value(cfg, f)

\* the member sets each query aggregates over in the phase of c
Aggregated(c) ==
    CASE c.state = "Stable" -> {c.new}
      [] c.state = "CatchUp" -> {c.old}
      [] c.state = "Joint" -> {c.new, c.old}

FullAggregated(c) == IF c.state = "Stable" THEN {c.new} ELSE {c.new, c.old}

\* C13: a majority-guaranteed value over an empty member set is a panic:
\* consensus_value and full_consensus_value return no value when a member set
\* they aggregate over in the current phase is empty.
C13_EmptySetPanics ==
    /\ (Queried /\ {} \in Aggregated(cfg)) => Returned(Unreachable)
    /\ (FullQueried /\ {} \in FullAggregated(cfg)) => FullReturned(Unreachable)

C13_Witness ==
    /\ FullReturned(Unreachable)
    /\ cfg.state = "CatchUp"
    /\ cfg.new = {}
    /\ cfg.old # {}

\* the accessors one step above g: one member's value raised by one, or the
\* value of one node outside members() changed at will.  Every accessor that is
\* at least g on members() is reached from g by such steps, and every accessor
\* is the f of some state, so monotonicity along the steps is monotonicity.
RaisedOnce(c, g) ==
    LET ms == members(c)
    IN {[g EXCEPT ![n] = g[n] + 1] : n \in {m \in ms : g[m] < MaxVal}}
        \cup {[g EXCEPT ![n] = v] : n \in Nodes \ ms, v \in Vals}

\* C20: consensus_value and full_consensus_value are monotone in the accessor:
\* an accessor that is at least f on every node of members() gives a result
\* that is at least the result for f.
C20_MonotoneInAccessor ==
    /\ (Queried /\ ~Returned(Unreachable)) =>
            \A h \in RaisedOnce(cfg, f) : consensus_value(cfg, h) >= result[1]
    /\ (FullQueried /\ ~FullReturned(Unreachable)) =>
            \A h \in RaisedOnce(cfg, f) : full_consensus_value(cfg, h) >= result[1]

C20_Witness ==
    /\ Queried
    /\ cfg.state = "Joint"
    /\ BothNonEmpty
    /\ cfg.old # cfg.new
    /\ \E n \in members(cfg) :
        /\ f[n] < MaxVal
        /\ consensus_value(cfg, [f EXCEPT ![n] = MaxVal]) > result[1]

\* C14: start_config_change(target) on a Stable configuration c returns
\* new_members = target, old_members = c.primary_members() = c.new_members and
\* phase CatchUp.
C14_StartFromStable ==
    [][(cfg.state = "Stable" /\ op' = "start_config_change") =>
            /\ cfg'.new = target'[1]
            /\ cfg'.old = primary_members(cfg)
            /\ cfg'.old = cfg.new
            /\ cfg'.state = "CatchUp"
      ]_vars

C14_Witness ==
    /\ op = "start_config_change"
    /\ cfg.state = "CatchUp"
    /\ target = <<cfg.new>>
    /\ lastStable = <<cfg.old>>
    /\ cfg.new \ cfg.old # {}
    /\ cfg.old \ cfg.new # {}

\* C15: to_next_state advances one step and changes nothing else: CatchUp ->
\* Joint with both sets unchanged, Joint -> Stable with new_members unchanged
\* and old_members empty, Stable -> the same configuration.
C15_NextStateFrame ==
    [][op' = "to_next_state" =>
            /\ cfg.state = "CatchUp" =>
                    cfg' = [new |-> cfg.new, old |-> cfg.old, state |-> "Joint"]
            /\ cfg.state = "Joint" =>
                    cfg' = [new |-> cfg.new, old |-> {}, state |-> "Stable"]
            /\ cfg.state = "Stable" => cfg' = cfg
            /\ f' = f
            /\ target' = target
      ]_vars

C15_Witness ==
    /\ op = "to_next_state"
    /\ cfg.state = "Joint"
    /\ target = <<cfg.new>>
    /\ lastStable = <<cfg.old>>
    /\ cfg.new # {}
    /\ cfg.old # {}
    /\ cfg.new # cfg.old

\* C16: for a Stable c and a target T, c.start_config_change(T) followed by
\* to_next_state twice equals ClusterConfig::new(T); so whenever a change to T
\* was started and the phase is Stable again, whatever queries were made on
\* the way, the configuration is new(T).
C16_ChangeRoundTrip ==
    cfg.state = "Stable" =>
        /\ target # <<>> => cfg = new(target[1])
        /\ \A t \in ClusterMembers :
            to_next_state(to_next_state(start_config_change(cfg, t))) = new(t)

C16_Witness ==
    /\ op = "consensus_value"
    /\ cfg.state = "Stable"
    /\ target = <<cfg.new>>
    /\ cfg = new(cfg.new)
    /\ cfg.new # {}
    /\ Cardinality(cfg.new) < MaxNode

\* C17: members() yields exactly new_members \cup old_members (each node
\* once), and is_known_node(n) is true exactly for the nodes of that union,
\* in every phase.
C17_MembersIsUnion ==
    /\ op = "members" =>
            /\ {result[1][i] : i \in 1..Len(result[1])} = cfg.new \cup cfg.old
            /\ Len(result[1]) = Cardinality(cfg.new \cup cfg.old)
    /\ op = "is_known_node" =>
            (result[2] <=> result[1] \in cfg.new \cup cfg.old)
    /\ \A n \in Nodes : is_known_node(cfg, n) <=> n \in members(cfg)

C17_Witness ==
    /\ op = "is_known_node"
    /\ cfg.state = "CatchUp"
    /\ result[1] \in cfg.new \ cfg.old
    /\ result[2]
    /\ cfg.old # {}

\* C18: for a CatchUp configuration c, c.to_next_state().consensus_value(f)
\* equals c.full_consensus_value(f); so when the gate full_consensus_value(f)
\* >= consensus_value(f) held before the step, CatchUp -> Joint does not lower
\* consensus_value(f).
C18_GateIsNextConsensus ==
    [][(cfg.state = "CatchUp" /\ op = "full_consensus_value"
            /\ op' = "to_next_state") =>
            /\ consensus_value(cfg', f') = result[1]
            /\ result[1] >= consensus_value(cfg, f) =>
                    consensus_value(cfg', f') >= consensus_value(cfg, f)
      ]_vars

C18_Witness ==
    /\ FullQueried
    /\ cfg.state = "CatchUp"
    /\ BothNonEmpty
    /\ cfg.new \ cfg.old # {}
    /\ result[1] >= consensus_value(cfg, f)
    /\ result[1] < median(cfg.new, f)
    /\ consensus_value(to_next_state(cfg), f) = result[1]

\* C19: for a fixed f, consensus_value(f) does not decrease across a
\* transition other than CatchUp -> Joint: it is unchanged by
\* start_config_change on Stable and by to_next_state on Stable, and does not
\* decrease across to_next_state from Joint to Stable.  The value before the
\* transition is the one the query just returned; every configuration and
\* accessor is followed by such a query and then by every transition.
C19_ConsensusNotLowered ==
    [][(Queried /\ op' \in {"start_config_change", "to_next_state"}) =>
            LET before == result[1]
                after == consensus_value(cfg', f')
            IN  /\ (cfg.state = "Stable" /\ op' = "start_config_change") =>
                        after = before
                /\ (cfg.state = "Stable" /\ op' = "to_next_state") =>
                        after = before
                /\ (cfg.state = "Joint" /\ op' = "to_next_state") =>
                        after >= before
                /\ ~(cfg.state = "CatchUp" /\ op' = "to_next_state") =>
                        after >= before
      ]_vars

C19_Witness ==
    /\ op = "to_next_state"
    /\ cfg.state = "Stable"
    /\ target = <<cfg.new>>
    /\ lastStable = <<cfg.new>>
    /\ cfg.new # {}
    /\ \E o \in ClusterMembers \ {{}} :
        consensus_value(cfg, f) >
            consensus_value([new |-> cfg.new, old |-> o, state |-> "Joint"], f)

====
